---- MODULE Spec2Model ----
(***************************************************************************)
(* Model of src/app.py: the Flask application "Water Purification Level    *)
(* Predictor".  Module start-up (scikit-learn version check, model load),  *)
(* the two request handlers index() and predict(), the flash-message queue *)
(* of each browser session and the file predictions_log.csv.               *)
(*                                                                         *)
(* Numbers: a parsed form value is an integer count of hundredths          *)
(* (float("1.2") is 120); a raw model output is an integer count of        *)
(* thousandths (85.235 is 85235) and round(pred, 2) is a count of          *)
(* hundredths.                                                             *)
(***************************************************************************)
EXTENDS Integers, Sequences, FiniteSets, TLC

\* ---------------------------------------------------------------- bounds
NumWorkers == 2              \* concurrent request threads, one browser session each
MaxRequests == 2             \* total number of HTTP requests handled in a run

Workers == 1..NumWorkers

\* ------------------------------------------------------- feature schema
\* get_fields(): the keys of `defaults`, in dictionary order.
FieldNames == <<"voltage", "current", "turbidity", "ph", "tds", "conductivity",
                "water_temp", "ambient_temp", "irradiance", "flow_rate",
                "purification_time">>

FieldSet == {FieldNames[i] : i \in 1..Len(FieldNames)}

\* Variant of filter_list: the encoding follows the dropdown order.
filter_list_dropdown == <<"RO", "UV", "Carbon", "UV+Carbon">>

\* predict(): filter_list, the order of the one-hot encoding.
filter_list == <<"Carbon", "RO", "UV", "UV+Carbon">>

\* index(): the order of the dropdown on GET /.
index_filters == <<"RO", "UV", "Carbon", "UV+Carbon">>

\* flash(...) text of predict()'s except branch.
InvalidInputMsg == "Invalid input. Please enter numeric values."

\* Columns of the DataFrame {**data, 'filter_type': ..., 'purification': ...}.
LogColumns == FieldNames \o <<"filter_type", "purification">>

HeaderLine == [kind |-> "header", cells |-> LogColumns]

\* ------------------------------------------------------------- float()
\* Python float(s) on the raw strings used here: the value in hundredths.
\* A string outside the table makes float() raise ValueError.
FloatTable ==
    ("18.0" :> 1800) @@ ("3.0" :> 300) @@ ("5.0" :> 500) @@ ("7.0" :> 700) @@
    ("300.0" :> 30000) @@ ("450.0" :> 45000) @@ ("25.0" :> 2500) @@
    ("600.0" :> 60000) @@ ("1.2" :> 120) @@ ("10" :> 1000) @@
    ("1" :> 100) @@ ("2" :> 200) @@ ("3" :> 300) @@ ("4" :> 400) @@
    ("5" :> 500) @@ ("6" :> 600) @@ ("7" :> 700) @@ ("8" :> 800) @@
    ("9" :> 900) @@ ("11" :> 1100) @@ (" 7.0 " :> 700) @@ ("1e1" :> 1000)

\* request.form[name] raises KeyError when the key is absent; float raises
\* ValueError on a non-numeric string.  Either one enters the except branch.
FieldParses(form, name) == name \in DOMAIN form /\ form[name] \in DOMAIN FloatTable

\* Variant of FormParses: a filter_type outside the four names is rejected.
FormParsesStrict(form) ==
    /\ \A i \in 1..Len(FieldNames) : FieldParses(form, FieldNames[i])
    /\ "filter_type" \in DOMAIN form
    /\ form["filter_type"] \in {"Carbon", "RO", "UV", "UV+Carbon"}

\* The try block of predict() completes without an exception.
FormParses(form) ==
    /\ \A i \in 1..Len(FieldNames) : FieldParses(form, FieldNames[i])
    /\ "filter_type" \in DOMAIN form

\* data = {name: float(request.form[name]) for each field}, as the tuple of
\* its values in dictionary order.
ParseData(form) == [i \in 1..Len(FieldNames) |-> FloatTable[form[FieldNames[i]]]]

\* encoding = [1 if filter_type == f else 0 for f in filter_list]
Encoding(ft) == [i \in 1..Len(filter_list) |-> IF ft = filter_list[i] THEN 1 ELSE 0]

\* features = [data['voltage'], ..., data['purification_time']] + encoding
Features(d, ft) == d \o Encoding(ft)

\* round(pred, 2): thousandths to hundredths, ties to the even neighbour.
Round2(p) ==
    LET q == p \div 10
        r == p % 10
    IN  IF r > 5 THEN q + 1
        ELSE IF r < 5 THEN q
        ELSE IF q % 2 = 0 THEN q ELSE q + 1

\* ------------------------------------------------------ version check
\* packaging.version ordering of release tuples <<major, minor, patch>>.
VerLess(a, b) ==
    \/ a[1] < b[1]
    \/ a[1] = b[1] /\ a[2] < b[2]
    \/ a[1] = b[1] /\ a[2] = b[2] /\ a[3] < b[3]

\* Variant of Compatible: every release from 1.1.3 on is accepted.
CompatibleAtLeast(v) == ~VerLess(v, <<1, 1, 3>>)

\* skl_ver == parse("1.1.3") or skl_ver >= parse("1.2.2")
Compatible(v) == v = <<1, 1, 3>> \/ ~VerLess(v, <<1, 2, 2>>)

\* Installed scikit-learn releases considered; <<>> is "not installed"
\* (import sklearn raises).
NotInstalled == <<>>
Versions == {<<0, 24, 2>>, <<1, 1, 2>>, <<1, 1, 3>>, <<1, 1, 4>>, <<1, 2, 1>>,
             <<1, 2, 2>>, <<1, 10, 0>>, NotInstalled}

\* The release the module's docstring error message asks for (line 27).
RecommendedVersion == <<1, 1, 3>>

ModelFileStates == {"absent", "corrupt", "valid"}

\* ------------------------------------------------------- request inputs
DefaultForm(ft) ==
    ("voltage" :> "18.0") @@ ("current" :> "3.0") @@ ("turbidity" :> "5.0") @@
    ("ph" :> "7.0") @@ ("tds" :> "300.0") @@ ("conductivity" :> "450.0") @@
    ("water_temp" :> "25.0") @@ ("ambient_temp" :> "25.0") @@
    ("irradiance" :> "600.0") @@ ("flow_rate" :> "1.2") @@
    ("purification_time" :> "10") @@ ("filter_type" :> ft)

DistinctForm(ft) ==
    ("voltage" :> "1") @@ ("current" :> "2") @@ ("turbidity" :> "3") @@
    ("ph" :> " 7.0 ") @@ ("tds" :> "5") @@ ("conductivity" :> "6") @@
    ("water_temp" :> "7") @@ ("ambient_temp" :> "8") @@
    ("irradiance" :> "9") @@ ("flow_rate" :> "1e1") @@
    ("purification_time" :> "11") @@ ("filter_type" :> ft)

Without(form, key) == [k \in (DOMAIN form) \ {key} |-> form[k]]

With(form, key, val) == [k \in DOMAIN form |-> IF k = key THEN val ELSE form[k]]

\* Malformed submissions: a key left out, a field that is not a number.
MissingKeyForms == {Without(DefaultForm("RO"), k) : k \in FieldSet \cup {"filter_type"}}

BadNumberForms(b) == {With(DefaultForm("RO"), k, b) : k \in FieldSet}

\* The forms the clients of one run submit: two well-formed ones and one
\* family of malformed ones.  Over the pools, every filter string and every
\* malformed form is submitted.
PoolA == {DefaultForm("RO"), DistinctForm("UV")} \cup MissingKeyForms

PoolB == {DefaultForm("Carbon"), DefaultForm("UV+Carbon")} \cup BadNumberForms("abc")

PoolC == {DefaultForm("Sand"), DefaultForm("carbon")} \cup BadNumberForms("")

FormPools == {PoolA, PoolB, PoolC}

Forms == UNION FormPools

\* Raw outputs of model.predict (thousandths); the model is opaque.
PredValues == {85235, 85246}

\* -------------------------------------------------------------- state
VARIABLES
    spc,          \* start-up position: boot, version_ok, loaded, serving, aborted
    sklVersion,   \* sklearn.__version__ of the environment
    modelFile,    \* water_purifier_model.pkl: absent, corrupt or valid
    startupError, \* exception that ended start-up, "" if none
    model,        \* TRUE once joblib.load returned
    pc,           \* per worker: position inside predict(), "idle" outside
    req,          \* per worker: request.form of the request being handled
    data,         \* per worker: predict()'s local `data`
    filter_type,  \* per worker: predict()'s local `filter_type`
    features,     \* per worker: predict()'s local `features`
    purification, \* per worker: predict()'s local `purification`, <<>> if unset
    header,       \* per worker: value of `not os.path.exists(log_file)`
    flashes,      \* per session: queued flash messages
    lastResp,     \* the response sent last
    logFile,      \* predictions_log.csv: [exists, lines]
    modelArg,     \* per worker: matrix handed to model.predict, <<>> if none
    predictCalls, \* per worker: calls of model.predict in the current request
    appended,     \* per worker: lines the current request wrote to the log
    nReq,         \* number of requests accepted so far
    renderedRows, \* log rows whose purification was rendered by their writer
    ioFailed,     \* some to_csv call has raised
    clientForms   \* the forms the clients of this run submit

vars == <<spc, sklVersion, modelFile, startupError, model, pc, req, data,
          filter_type, features, purification, header, flashes, lastResp, logFile,
          modelArg, predictCalls, appended, nReq, renderedRows, ioFailed, clientForms>>

startVars == <<spc, sklVersion, modelFile, startupError, model, clientForms>>

reqVars == <<pc, req, data, filter_type, features, purification, header, flashes,
             lastResp, logFile, modelArg, predictCalls, appended, nReq,
             renderedRows, ioFailed>>

Unset == "<unset>"
NoForm == <<>>

Response(m, st, loc, msgs, filters, result) ==
    [method |-> m, status |-> st, location |-> loc, messages |-> msgs,
     filters |-> filters, result |-> result]

NoResp == Response("", 0, "", <<>>, <<>>, <<>>)

\* The application before its module body runs, in a given environment.
InitState ==
    /\ spc = "boot"
    /\ startupError = ""
    /\ model = FALSE
    /\ pc = [w \in Workers |-> "idle"]
    /\ req = [w \in Workers |-> NoForm]
    /\ data = [w \in Workers |-> <<>>]
    /\ filter_type = [w \in Workers |-> Unset]
    /\ features = [w \in Workers |-> <<>>]
    /\ purification = [w \in Workers |-> <<>>]
    /\ header = [w \in Workers |-> FALSE]
    /\ flashes = [w \in Workers |-> <<>>]
    /\ lastResp = NoResp
    /\ logFile = [exists |-> FALSE, lines |-> <<>>]
    /\ modelArg = [w \in Workers |-> <<>>]
    /\ predictCalls = [w \in Workers |-> 0]
    /\ appended = [w \in Workers |-> <<>>]
    /\ nReq = 0
    /\ renderedRows = {}
    /\ ioFailed = FALSE

\* A working installation (scikit-learn 1.1.3, model file in place); the
\* clients submit the forms of any one pool.
Init ==
    /\ sklVersion = RecommendedVersion
    /\ modelFile = "valid"
    /\ clientForms \in FormPools
    /\ InitState

\* Any installation; the clients submit the forms of the first pool.
StartInit ==
    /\ sklVersion \in Versions
    /\ modelFile \in ModelFileStates
    /\ clientForms = PoolA
    /\ InitState

\* ------------------------------------------------------------ start-up
\* Lines 21-29: import sklearn, compare versions; any exception becomes
\* RuntimeError("Dependency error: ...") and ends the import of the module.
CheckVersion ==
    /\ spc = "boot"
    /\ IF sklVersion # NotInstalled /\ Compatible(sklVersion)
       THEN /\ spc' = "version_ok"
            /\ startupError' = startupError
       ELSE /\ spc' = "aborted"
            /\ startupError' = "RuntimeError"
    /\ UNCHANGED <<sklVersion, modelFile, model, clientForms>>
    /\ UNCHANGED reqVars

\* Lines 32-35: os.path.exists(MODEL_PATH), then joblib.load(MODEL_PATH).
LoadModel ==
    /\ spc = "version_ok"
    /\ IF modelFile = "absent"
       THEN /\ spc' = "aborted"
            /\ startupError' = "FileNotFoundError"
            /\ model' = model
       ELSE IF modelFile = "corrupt"
       THEN /\ spc' = "aborted"
            /\ startupError' = "UnpicklingError"
            /\ model' = model
       ELSE /\ spc' = "loaded"
            /\ startupError' = startupError
            /\ model' = TRUE
    /\ UNCHANGED <<sklVersion, modelFile, clientForms>>
    /\ UNCHANGED reqVars

\* Lines 138-139 (or `flask run`): the server starts once the module body
\* has run to its end.
Serve ==
    /\ spc = "loaded"
    /\ spc' = "serving"
    /\ UNCHANGED <<sklVersion, modelFile, startupError, model, clientForms>>
    /\ UNCHANGED reqVars

\* ------------------------------------------------------------ requests
\* render_template_string(PAGE, ...): get_flashed_messages() takes every
\* queued message of the session (lines 56-62); the result line is present
\* iff the template variable `purification` is defined (lines 80-82).
Page(w, m, filters, result) == Response(m, 200, "", flashes[w], filters, result)

\* redirect(url_for('index'))
Redirect == Response("POST", 302, "/", <<>>, <<>>, <<>>)

\* An exception that leaves the handler: Flask answers 500.
ServerError == Response("POST", 500, "", <<>>, <<>>, <<>>)

\* Variant of Flash: the message is lost.
FlashDropped(queue, msg) == queue

\* flash(message): the message joins the session's queue.
Flash(queue, msg) == Append(queue, msg)

\* The server accepts a request for worker w.
Accept(w) ==
    /\ spc = "serving"
    /\ pc[w] = "idle"
    /\ nReq < MaxRequests
    /\ nReq' = nReq + 1

\* Ends the request of worker w: its locals go out of scope.
Finish(w) ==
    /\ pc' = [pc EXCEPT ![w] = "idle"]
    /\ req' = [req EXCEPT ![w] = NoForm]
    /\ data' = [data EXCEPT ![w] = <<>>]
    /\ filter_type' = [filter_type EXCEPT ![w] = Unset]
    /\ features' = [features EXCEPT ![w] = <<>>]
    /\ purification' = [purification EXCEPT ![w] = <<>>]
    /\ header' = [header EXCEPT ![w] = FALSE]
    /\ modelArg' = [modelArg EXCEPT ![w] = <<>>]
    /\ predictCalls' = [predictCalls EXCEPT ![w] = 0]
    /\ appended' = [appended EXCEPT ![w] = <<>>]

\* Lines 104-106: GET / , index().
Index(w) ==
    /\ Accept(w)
    /\ lastResp' = Page(w, "GET", index_filters, <<>>)
    /\ flashes' = [flashes EXCEPT ![w] = <<>>]
    /\ UNCHANGED startVars
    /\ UNCHANGED <<pc, req, data, filter_type, features, purification, header,
                   logFile, modelArg, predictCalls, appended, renderedRows, ioFailed>>

\* Lines 108-125: POST /predict with the form `form`: the try block, then
\* the encoding and the feature list.
Validate(w, form) ==
    /\ Accept(w)
    /\ IF FormParses(form)
       THEN /\ req' = [req EXCEPT ![w] = form]
            /\ data' = [data EXCEPT ![w] = ParseData(form)]
            /\ filter_type' = [filter_type EXCEPT ![w] = form["filter_type"]]
            /\ features' = [features EXCEPT ![w] =
                               Features(ParseData(form), form["filter_type"])]
            /\ pc' = [pc EXCEPT ![w] = "model"]
            /\ UNCHANGED <<purification, header, modelArg, predictCalls,
                           appended, flashes, lastResp>>
       ELSE /\ flashes' = [flashes EXCEPT ![w] = Flash(@, InvalidInputMsg)]
            /\ lastResp' = Redirect
            /\ UNCHANGED <<pc, req, data, filter_type, features, purification,
                           header, modelArg, predictCalls, appended>>
    /\ UNCHANGED startVars
    /\ UNCHANGED <<logFile, renderedRows, ioFailed>>

\* Variant of HeaderArg: the header is written on every append.
HeaderAlways(file) == TRUE

\* header = not os.path.exists(log_file)
HeaderArg(file) == ~file.exists

\* Lines 128-134: model.predict(np.array(features).reshape(1, -1))[0],
\* round(pred, 2), and the evaluation of to_csv's argument
\* header = not os.path.exists(log_file).  An exception of the model is not
\* caught.
Predict(w) ==
    /\ pc[w] = "model"
    /\ \/ /\ \E pred \in PredValues :
                purification' = [purification EXCEPT ![w] = <<Round2(pred)>>]
          /\ modelArg' = [modelArg EXCEPT ![w] = <<features[w]>>]
          /\ predictCalls' = [predictCalls EXCEPT ![w] = @ + 1]
          /\ header' = [header EXCEPT ![w] = HeaderArg(logFile)]
          /\ pc' = [pc EXCEPT ![w] = "open"]
          /\ UNCHANGED <<req, data, filter_type, features, appended, lastResp>>
       \/ /\ lastResp' = ServerError
          /\ Finish(w)
    /\ UNCHANGED startVars
    /\ UNCHANGED <<flashes, logFile, nReq, renderedRows, ioFailed>>

\* Variant of Row: the first two columns change places.
RowMisordered(w) ==
    [kind |-> "row",
     cells |-> <<data[w][2], data[w][1]>> \o SubSeq(data[w], 3, Len(data[w]))
               \o <<filter_type[w], purification[w][1]>>]

\* The DataFrame row {**data, 'filter_type': filter_type, 'purification':
\* purification} of worker w.
Row(w) ==
    [kind |-> "row", cells |-> data[w] \o <<filter_type[w], purification[w][1]>>]

\* Variant of OpenLog: the OSError is swallowed and the result page follows.
OpenLogSwallowed(w) ==
    /\ pc[w] = "open"
    /\ \/ /\ logFile' = [logFile EXCEPT !.exists = TRUE]
          /\ pc' = [pc EXCEPT ![w] = "write"]
          /\ UNCHANGED ioFailed
       \/ /\ pc' = [pc EXCEPT ![w] = "render"]
          /\ ioFailed' = TRUE
          /\ UNCHANGED logFile
    /\ UNCHANGED startVars
    /\ UNCHANGED <<req, data, filter_type, features, purification, header,
                   modelArg, predictCalls, appended, lastResp, flashes, nReq,
                   renderedRows>>

\* Line 134, to_csv(mode='a'): open(log_file, 'a') creates the file when it
\* is absent.  An OSError is not caught.
OpenLog(w) ==
    /\ pc[w] = "open"
    /\ \/ /\ logFile' = [logFile EXCEPT !.exists = TRUE]
          /\ pc' = [pc EXCEPT ![w] = "write"]
          /\ UNCHANGED <<req, data, filter_type, features, purification, header,
                         modelArg, predictCalls, appended, lastResp, ioFailed>>
       \/ /\ lastResp' = ServerError
          /\ ioFailed' = TRUE
          /\ Finish(w)
          /\ UNCHANGED logFile
    /\ UNCHANGED startVars
    /\ UNCHANGED <<flashes, nReq, renderedRows>>

\* Line 134, to_csv(mode='a'): the header (when header is True) and the
\* row are written and the file is closed.  An OSError is not caught.
WriteLog(w) ==
    /\ pc[w] = "write"
    /\ \/ /\ LET out == (IF header[w] THEN <<HeaderLine>> ELSE <<>>) \o <<Row(w)>>
             IN  /\ logFile' = [logFile EXCEPT !.lines = @ \o out]
                 /\ appended' = [appended EXCEPT ![w] = @ \o out]
          /\ pc' = [pc EXCEPT ![w] = "render"]
          /\ UNCHANGED <<req, data, filter_type, features, purification, header,
                         modelArg, predictCalls, lastResp, ioFailed>>
       \/ /\ lastResp' = ServerError
          /\ ioFailed' = TRUE
          /\ Finish(w)
          /\ UNCHANGED logFile
    /\ UNCHANGED startVars
    /\ UNCHANGED <<flashes, nReq, renderedRows>>

\* Line 136: the result page.
Render(w) ==
    /\ pc[w] = "render"
    /\ lastResp' = Page(w, "POST", filter_list, purification[w])
    /\ flashes' = [flashes EXCEPT ![w] = <<>>]
    /\ renderedRows' = renderedRows \cup {Row(w)}
    /\ Finish(w)
    /\ UNCHANGED startVars
    /\ UNCHANGED <<logFile, nReq, ioFailed>>

Next ==
    \/ CheckVersion
    \/ LoadModel
    \/ Serve
    \/ \E w \in Workers : Index(w)
    \/ \E w \in Workers : \E form \in clientForms : Validate(w, form)
    \/ \E w \in Workers : Predict(w)
    \/ \E w \in Workers : OpenLog(w)
    \/ \E w \in Workers : WriteLog(w)
    \/ \E w \in Workers : Render(w)

Spec == Init /\ [][Next]_vars

StartSpec == StartInit /\ [][Next]_vars

\* Requests that do not overlap: a request is accepted only while every
\* other worker is idle.
OthersIdle(w) == \A v \in Workers \ {w} : pc[v] = "idle"

SeqNext ==
    \/ CheckVersion
    \/ LoadModel
    \/ Serve
    \/ \E w \in Workers : OthersIdle(w) /\ Index(w)
    \/ \E w \in Workers : \E form \in clientForms : OthersIdle(w) /\ Validate(w, form)
    \/ \E w \in Workers : Predict(w)
    \/ \E w \in Workers : OpenLog(w)
    \/ \E w \in Workers : WriteLog(w)
    \/ \E w \in Workers : Render(w)

SeqSpec == Init /\ [][SeqNext]_vars

\* ============================================================== claims

\* C1: for a POST /predict whose 11 numeric fields parse and whose
\* filter_type is Carbon, RO, UV or UV+Carbon, the matrix handed to
\* model.predict is one row of 15 elements: the parsed values of voltage,
\* current, turbidity, ph, tds, conductivity, water_temp, ambient_temp,
\* irradiance, flow_rate, purification_time in that order, then a one-hot
\* group with its single 1 at the index of filter_type in
\* [Carbon, RO, UV, UV+Carbon].
C1_FeatureVector ==
    \A w \in Workers :
        (/\ pc[w] # "idle"
         /\ modelArg[w] # <<>>
         /\ req[w]["filter_type"] \in {"Carbon", "RO", "UV", "UV+Carbon"}) =>
            LET v == modelArg[w][1]
                ft == req[w]["filter_type"]
                names == <<"voltage", "current", "turbidity", "ph", "tds",
                           "conductivity", "water_temp", "ambient_temp",
                           "irradiance", "flow_rate", "purification_time">>
            IN  /\ Len(modelArg[w]) = 1
                /\ Len(v) = 15
                /\ \A i \in 1..11 : v[i] = FloatTable[req[w][names[i]]]
                /\ SubSeq(v, 12, 15) =
                       CASE ft = "Carbon" -> <<1, 0, 0, 0>>
                         [] ft = "RO" -> <<0, 1, 0, 0>>
                         [] ft = "UV" -> <<0, 0, 1, 0>>
                         [] ft = "UV+Carbon" -> <<0, 0, 0, 1>>
                /\ (req[w] = DefaultForm("RO") =>
                        v = <<1800, 300, 500, 700, 30000, 45000, 2500, 2500,
                              60000, 120, 1000, 0, 1, 0, 0>>)
                /\ (req[w] = DistinctForm("UV") =>
                        v = <<100, 200, 300, 700, 500, 600, 700, 800, 900,
                              1000, 1100, 0, 0, 1, 0>>)

C1_Witness ==
    \E w \in Workers :
        /\ pc[w] = "open"
        /\ modelArg[w] # <<>>
        /\ req[w] = DistinctForm("UV")

\* C2 (as claimed): after any sequence of POST /predict requests,
\* concurrent ones included, a log file that has lines has the header as
\* its first line and contains the header exactly once.
C2_HeaderOnce ==
    Len(logFile.lines) > 0 =>
        /\ logFile.lines[1].kind = "header"
        /\ Cardinality({i \in 1..Len(logFile.lines) :
                            logFile.lines[i].kind = "header"}) = 1

\* C3: a POST /predict in which one of the 11 numeric fields is missing or
\* is not a number, or in which filter_type is absent, answers with a
\* redirect to / , queues the message "Invalid input. Please enter numeric
\* values." for the session, and changes nothing else: no call of
\* model.predict, no change of the log file, no result page.
C3_InvalidInput ==
    [][\A w \in Workers : \A f \in clientForms :
          (/\ Validate(w, f)
           /\ \/ \E k \in FieldSet : k \notin DOMAIN f \/ f[k] \notin DOMAIN FloatTable
              \/ "filter_type" \notin DOMAIN f) =>
              /\ lastResp'.status = 302
              /\ lastResp'.location = "/"
              /\ lastResp'.result = <<>>
              /\ flashes' = [flashes EXCEPT ![w] =
                     Append(@, "Invalid input. Please enter numeric values.")]
              /\ logFile' = logFile
              /\ modelArg' = modelArg
              /\ predictCalls' = predictCalls
              /\ appended' = appended
              /\ renderedRows' = renderedRows
              /\ pc' = pc]_vars

C3_Witness ==
    /\ lastResp.status = 302
    /\ \E w \in Workers : Len(flashes[w]) = 2
    /\ ~logFile.exists

\* C4: for requests that do not overlap and no failed log write, the first
\* successful prediction creates the file with the header line and the
\* data row, and every later one adds exactly one data row at the end and
\* no header; between requests the file is absent or is one header line
\* followed by data rows only.
C4_SequentialAppend ==
    /\ []((/\ \A w \in Workers : pc[w] = "idle"
           /\ ~ioFailed) =>
              IF logFile.lines = <<>>
              THEN ~logFile.exists
              ELSE /\ logFile.exists
                   /\ Len(logFile.lines) >= 2
                   /\ logFile.lines[1].kind = "header"
                   /\ \A i \in 2..Len(logFile.lines) : logFile.lines[i].kind = "row")
    /\ [][\A w \in Workers :
            (pc[w] = "write" /\ pc'[w] = "render" /\ ~ioFailed) =>
                LET old == logFile.lines
                    new == logFile'.lines
                    n == Len(new)
                IN  /\ n = (IF old = <<>> THEN 2 ELSE Len(old) + 1)
                    /\ SubSeq(new, 1, Len(old)) = old
                    /\ new[n].kind = "row"
                    /\ new[n].cells[13] = purification[w][1]
                    /\ new[n].cells[12] = req[w]["filter_type"]
                    /\ (old = <<>> =>
                          /\ new[1].kind = "header"
                          /\ new[1].cells =
                                <<"voltage", "current", "turbidity", "ph", "tds",
                                  "conductivity", "water_temp", "ambient_temp",
                                  "irradiance", "flow_rate", "purification_time",
                                  "filter_type", "purification">>)]_vars

C4_Witness ==
    /\ \A w \in Workers : pc[w] = "idle"
    /\ ~ioFailed
    /\ Len(logFile.lines) = 3
    /\ logFile.lines[1].kind = "header"

\* C5: a POST /predict that passed validation calls model.predict exactly
\* once; when it reaches the result page it has appended exactly one data
\* row, whose columns are the 11 parsed inputs in declared order, the raw
\* filter_type and the purification value that the page then shows; every
\* data row of the log was rendered by its writer, or its writer is about
\* to render it.
C5_LogMatchesRender ==
    /\ [](\A w \in Workers :
            /\ (pc[w] = "model" => predictCalls[w] = 0)
            /\ (pc[w] \in {"open", "write", "render"} => predictCalls[w] = 1)
            /\ (pc[w] \in {"model", "open", "write"} => appended[w] = <<>>)
            /\ (pc[w] = "render" =>
                  LET a == appended[w]
                      row == a[Len(a)]
                      names == <<"voltage", "current", "turbidity", "ph", "tds",
                                 "conductivity", "water_temp", "ambient_temp",
                                 "irradiance", "flow_rate", "purification_time">>
                  IN  /\ Cardinality({i \in 1..Len(a) : a[i].kind = "row"}) = 1
                      /\ row.kind = "row"
                      /\ Len(row.cells) = 13
                      /\ \A i \in 1..11 : row.cells[i] = FloatTable[req[w][names[i]]]
                      /\ row.cells[12] = req[w]["filter_type"]
                      /\ row.cells[13] = purification[w][1]))
    /\ [](\A i \in 1..Len(logFile.lines) :
            logFile.lines[i].kind = "row" =>
                \/ \E r \in renderedRows : r.cells = logFile.lines[i].cells
                \/ \E w \in Workers :
                      /\ pc[w] = "render"
                      /\ appended[w][Len(appended[w])].cells = logFile.lines[i].cells)
    /\ [][\A w \in Workers :
            (pc[w] = "render" /\ pc'[w] = "idle") =>
                LET row == appended[w][Len(appended[w])]
                IN  /\ lastResp'.status = 200
                    /\ lastResp'.result = <<row.cells[13]>>
                    /\ logFile' = logFile
                    /\ \E r \in renderedRows' : r.cells = row.cells]_vars

C5_Witness ==
    /\ \A w \in Workers : pc[w] = "idle"
    /\ lastResp.status = 200
    /\ lastResp.result # <<>>
    /\ \E i \in 1..Len(logFile.lines) :
          /\ logFile.lines[i].kind = "row"
          /\ logFile.lines[i].cells[13] = lastResp.result[1]
          /\ logFile.lines[i].cells[1] = 100

\* C6 (as claimed): a queued flash message is rendered on the next GET /
\* of its session and on no other response, whatever the session requests
\* in between: whenever the queue of a session is emptied, the response
\* that took the messages answers a GET.
C6_FlashOnNextGet ==
    [][\A w \in Workers :
          (flashes[w] # <<>> /\ flashes'[w] = <<>>) =>
              /\ lastResp'.method = "GET"
              /\ lastResp'.messages = flashes[w]]_vars

\* C7 (as claimed): a rendered page is 'form' or 'form+result': the page
\* of GET / carries no result, and no page carries both a result and a
\* validation error message.
C7_TwoPageStates ==
    lastResp.status = 200 =>
        /\ (lastResp.method = "GET" => lastResp.result = <<>>)
        /\ (lastResp.method = "POST" => lastResp.result # <<>>)
        /\ ~(lastResp.result # <<>> /\ lastResp.messages # <<>>)

\* C8: inside one POST /predict the steps run in the order validate,
\* predict, append, render; a failed step ends the request with an error
\* and no later step runs: after a failed model.predict the log is
\* untouched and no page is rendered; after a failed append the prediction
\* was computed, no line was written and no result page is sent.
C8_StepOrder ==
    [][\A w \in Workers :
          /\ (pc'[w] # pc[w] =>
                <<pc[w], pc'[w]>> \in
                    {<<"idle", "model">>, <<"model", "open">>, <<"open", "write">>,
                     <<"write", "render">>, <<"model", "idle">>, <<"open", "idle">>,
                     <<"write", "idle">>, <<"render", "idle">>})
          /\ (predictCalls'[w] > predictCalls[w] => pc[w] = "model")
          /\ ((pc[w] = "model" /\ pc'[w] = "idle") =>
                /\ lastResp'.status = 500
                /\ lastResp'.result = <<>>
                /\ logFile' = logFile)
          /\ ((pc[w] \in {"open", "write"} /\ pc'[w] = "idle") =>
                /\ lastResp'.status = 500
                /\ lastResp'.result = <<>>
                /\ logFile'.lines = logFile.lines
                /\ predictCalls[w] = 1
                /\ purification[w] # <<>>)
          /\ ((pc[w] = pc'[w] /\ pc[w] # "idle") =>
                /\ predictCalls'[w] = predictCalls[w]
                /\ appended'[w] = appended[w])
          /\ (appended'[w] # <<>> /\ appended[w] = <<>> =>
                pc[w] = "write" /\ pc'[w] = "render")
          /\ ((pc[w] # "idle" /\ lastResp'.status = 200 /\ lastResp' # lastResp
               /\ flashes'[w] = <<>> /\ pc'[w] = "idle") => pc[w] = "render")]_vars

C8_Witness ==
    /\ ioFailed
    /\ lastResp.status = 500
    /\ logFile.exists
    /\ logFile.lines = <<>>
    /\ \A w \in Workers : pc[w] = "idle"

\* C9: a request is handled only after start-up passed both checks: the
\* installed scikit-learn version is 1.1.3 or at least 1.2.2, and the
\* model file exists; a failed check aborts start-up before the model is
\* loaded and before serving, and the version is checked first.
C9_StartupGate ==
    LET verOK ==
            /\ sklVersion # <<>>
            /\ \/ sklVersion = <<1, 1, 3>>
               \/ sklVersion[1] > 1
               \/ sklVersion[1] = 1 /\ sklVersion[2] > 2
               \/ sklVersion[1] = 1 /\ sklVersion[2] = 2 /\ sklVersion[3] >= 2
    IN  /\ ((nReq > 0 \/ lastResp.status # 0 \/ \E w \in Workers : pc[w] # "idle")
               => spc = "serving")
        /\ ((spc \in {"loaded", "serving"} \/ model) =>
               verOK /\ modelFile # "absent")
        /\ (~verOK =>
               /\ spc \in {"boot", "aborted"}
               /\ (spc = "aborted" => startupError = "RuntimeError"))
        /\ ((verOK /\ modelFile = "absent") =>
               /\ spc \in {"boot", "version_ok", "aborted"}
               /\ (spc = "aborted" => startupError = "FileNotFoundError"))
        /\ (spc = "aborted" => ~model /\ nReq = 0)

C9_Witness ==
    /\ nReq > 0
    /\ spc = "serving"
    /\ sklVersion = <<1, 10, 0>>
    /\ lastResp.status = 200

\* C10: for a POST /predict whose 11 numeric fields parse and whose
\* filter_type is present but is none of Carbon, RO, UV, UV+Carbon, the
\* four one-hot elements of the feature vector are 0 and the request is
\* served like any other: validation passes without a flash message,
\* model.predict is called, one row with the filter_type string as
\* submitted is appended, and the result page is rendered.
C10_UnknownFilter ==
    /\ [](\A w \in Workers :
            (pc[w] # "idle"
             /\ req[w]["filter_type"] \notin {"Carbon", "RO", "UV", "UV+Carbon"}) =>
                /\ Len(features[w]) = 15
                /\ SubSeq(features[w], 12, 15) = <<0, 0, 0, 0>>
                /\ (pc[w] \in {"open", "write", "render"} =>
                      /\ predictCalls[w] = 1
                      /\ Len(modelArg[w]) = 1
                      /\ SubSeq(modelArg[w][1], 12, 15) = <<0, 0, 0, 0>>)
                /\ (pc[w] = "render" =>
                      LET a == appended[w]
                      IN  /\ Cardinality({i \in 1..Len(a) : a[i].kind = "row"}) = 1
                          /\ a[Len(a)].kind = "row"
                          /\ a[Len(a)].cells[12] = req[w]["filter_type"]
                          /\ \E i \in 1..Len(logFile.lines) :
                                /\ logFile.lines[i].kind = "row"
                                /\ logFile.lines[i].cells = a[Len(a)].cells))
    /\ [][\A w \in Workers : \A f \in clientForms :
            (/\ "filter_type" \in DOMAIN f
             /\ f["filter_type"] \notin {"Carbon", "RO", "UV", "UV+Carbon"}
             /\ Validate(w, f)
             /\ \A k \in FieldSet : k \in DOMAIN f /\ f[k] \in DOMAIN FloatTable) =>
                /\ pc'[w] = "model"
                /\ req'[w] = f
                /\ flashes' = flashes
                /\ lastResp' = lastResp]_vars
    /\ [][\A w \in Workers :
            (/\ pc[w] = "render"
             /\ pc'[w] = "idle"
             /\ req[w]["filter_type"] \notin {"Carbon", "RO", "UV", "UV+Carbon"}) =>
                /\ lastResp'.status = 200
                /\ lastResp'.result = purification[w]]_vars

C10_Witness ==
    /\ lastResp.status = 200
    /\ lastResp.result # <<>>
    /\ \A w \in Workers : pc[w] = "idle"
    /\ Len(logFile.lines) = 2
    /\ logFile.lines[2].kind = "row"
    /\ logFile.lines[2].cells[12] = "carbon"

====
